---- MODULE Spec2Model ----
(***************************************************************************)
(* Hermes: the credential store, the approval workflow, the authorization *)
(* gates and the two master-key rotation scripts.                         *)
(*                                                                         *)
(* Ciphertexts are symbolic: a Fernet token is the pair of the key it was *)
(* sealed under and the plaintext it carries; opening it under another    *)
(* key raises InvalidToken (DecryptFail).  API keys (uuid4) and Fernet    *)
(* keys (Fernet.generate_key) are fresh values taken from counters.       *)
(*                                                                         *)
(* Three kinds of process share the database and the .env file: the       *)
(* server (its default cipher is built once at import, srvKey), the       *)
(* one-shot CLI commands (cipher built from .env when the command starts) *)
(* and the rotation scripts.  A rotation is an offline administrative run:*)
(* no request is in flight while it runs.                                 *)
(***************************************************************************)
EXTENDS Integers, FiniteSets, Sequences, TLC

\* ---------------------------------------------------------------- bounds
MaxUsers == 2
MaxBots == 2
MaxRotations == 2
MaxOwnRotations == 1
NumWorkers == 2
MaxLogs == 1
MaxSends == 1
\* the default of HERMES_DEFAULT_BOT_LIMIT, scaled down
DefaultBotLimit == 2

\* uuid4 draws are named canonically: the n-th API key generated for user u
MaxTok == MaxUsers * (MaxOwnRotations + 1)
FreshApiKey(u, n) == u + MaxUsers * n

\* Fernet keys are numbered in the order of their generation: FirstKey is the
\* one .env starts with, every rotation run generates the next
MaxKey == MaxRotations + 1
FirstKey == MaxKey - MaxRotations

UserIds == 1..MaxUsers
BotIds == 1..MaxBots
Tokens == 1..MaxTok
Workers == 1..NumWorkers
BotSecrets == {1}
\* the addresses and passwords a PUT payload carries: none of the stored ones
UpdatedSecrets == {x + 1 : x \in BotSecrets}
Emails == 1..MaxUsers
\* an address that is no well-formed e-mail address ("alice-at-x")
MalformedEmail == MaxUsers + 1

\* ---------------------------------------------------------------- crypto
\* None / "" (both falsy in Python) as a plaintext; raised InvalidToken
Empty == 0
DecryptFail == -1

\* a NULL ciphertext column
NullCT == [k |-> 0, p |-> 0]

\* crypto.py encrypt_value: Fernet(key).encrypt(value)
encrypt_value(value, key) == [k |-> key, p |-> value]

\* crypto.py decrypt_value: Fernet(key).decrypt(token), InvalidToken under
\* any key but the one the token was sealed with
decrypt_value(token, key) == IF token.k = key THEN token.p ELSE DecryptFail

\* ---------------------------------------------------------------- rows
NoUser == [exists |-> FALSE, email |-> 0, is_admin |-> FALSE, approved |-> FALSE,
           key |-> NullCT, plain |-> NullCT, usage |-> 0]

NoBot == [exists |-> FALSE, owner |-> 0, email |-> NullCT, password |-> NullCT]

VARIABLES
    users,      \* table user: id -> row (api_key_encrypted, api_key_plain_encrypted, flags)
    bots,       \* table email_bot: id -> row
    nextUid,    \* next fresh user id (uuid4)
    nextBid,    \* next fresh bot id (uuid4)
    issued,     \* per user: API keys generated for the user after the first
    nextKey,    \* next fresh Fernet key (Fernet.generate_key)
    envKey,     \* FERNET_KEY in .env
    srvKey,     \* key of the server process's default cipher (built at import)
    rot,        \* the rotation script process
    reqs,       \* approve requests in flight, one per server worker
    notified,   \* per user: approval e-mails carrying the key that were triggered
    resp,       \* the last response sent by the server
    logs,       \* table log: per owning user, the number of Log rows
    outbox,     \* messages handed to the SMTP transport, per sender
    limitEnv    \* HERMES_DEFAULT_BOT_LIMIT in the server's environment, Empty if unset

vars == <<users, bots, nextUid, nextBid, issued, nextKey, envKey, srvKey,
          rot, reqs, notified, resp, logs, outbox, limitEnv>>

\* ---------------------------------------------------------------- accessors
\* models.py User.api_key getter, under the cipher key c of the calling process
api_key(u, c) == IF u.key # NullCT THEN decrypt_value(u.key, c) ELSE Empty

\* models.py User.api_key_plain getter
api_key_plain(u, c) == IF u.plain # NullCT THEN decrypt_value(u.plain, c) ELSE Empty

\* models.py User.api_key setter (default cipher c) and User._set_api_key
\* (explicit key): a falsy value clears the column
set_api_key(u, value, c) ==
    [u EXCEPT !.key = IF value # Empty THEN encrypt_value(value, c) ELSE NullCT]

\* models.py User.api_key_plain setter and User._set_api_key_plain
set_api_key_plain(u, value, c) ==
    [u EXCEPT !.plain = IF value # Empty THEN encrypt_value(value, c) ELSE NullCT]

\* models.py EmailBot.email setter and EmailBot._set_email: always encrypts
set_email(b, value, c) == [b EXCEPT !.email = encrypt_value(value, c)]

\* models.py EmailBot.password setter and EmailBot._set_password
set_password(b, value, c) == [b EXCEPT !.password = encrypt_value(value, c)]

\* models.py EmailBot.email / EmailBot.password getters
bot_email(b, c) == decrypt_value(b.email, c)

bot_password(b, c) == decrypt_value(b.password, c)

\* the decrypt_value call of a field raises
Raises(ct, old) == ct # NullCT /\ decrypt_value(ct, old) = DecryptFail

UserRaises(u, old) == Raises(u.key, old) \/ Raises(u.plain, old)

BotRaises(b, old) == Raises(b.email, old) \/ Raises(b.password, old)

IdleReq == [pc |-> "idle", uid |-> 0, obj |-> NoUser]

IdleRot == [pc |-> "idle", script |-> "none", old |-> 0, new |-> 0,
            users0 |-> [u \in UserIds |-> NoUser], bots0 |-> [b \in BotIds |-> NoBot],
            sess_users |-> [u \in UserIds |-> NoUser], sess_bots |-> [b \in BotIds |-> NoBot]]

NoResp == [op |-> "none", status |-> 0, msg |-> "none", keys |-> {}, user |-> 0, bots |-> {}, mail |-> "none"]

\* nothing was sent yet: default counts the messages sent through the default
\* Hermes bot per requesting user, bot those sent through each EmailBot
EmptyOutbox == [default |-> [u \in UserIds |-> 0], bot |-> [b \in BotIds |-> 0]]

Init ==
    /\ users = [u \in UserIds |-> NoUser]
    /\ bots = [b \in BotIds |-> NoBot]
    /\ nextUid = 1
    /\ nextBid = 1
    /\ issued = [u \in UserIds |-> 0]
    /\ nextKey = FirstKey + 1
    /\ envKey = FirstKey
    /\ srvKey = FirstKey
    /\ rot = IdleRot
    /\ reqs = [w \in Workers |-> IdleReq]
    /\ notified = [u \in UserIds |-> 0]
    /\ resp = NoResp
    /\ logs = [u \in UserIds |-> 0]
    /\ outbox = EmptyOutbox
    /\ limitEnv = Empty

\* ---------------------------------------------------------------- requests
\* X-STATIC-KEY absent / equal to API_STATIC_KEY / different; Authorization
\* absent / "Bearer <tok>" / "<tok>" without the prefix
Headers ==
    [static : {"none", "good"}, auth : {"none"}, tok : {Empty}]
    \cup [static : {"none", "good"}, auth : {"bearer", "raw"}, tok : Tokens]

Min(S) == CHOOSE x \in S : \A y \in S : x <= y

\* auth.py get_current_user: the approved user whose decrypted key equals the
\* bearer token, 0 for None; ustore is the user table, c the server cipher key
get_current_user(h, ustore, c) ==
    IF h.static = "good" THEN 0
    ELSE IF h.auth # "bearer" THEN 0
    ELSE LET hit == {u \in UserIds : /\ ustore[u].exists
                                     /\ ustore[u].approved
                                     /\ api_key(ustore[u], c) = h.tok}
         IN IF hit = {} THEN 0 ELSE Min(hit)

\* admin_only without the static-key branch of lines 44-47
admin_onlyNoStaticKey(h, ustore, c) ==
    LET user == get_current_user(h, ustore, c)
    IN user # 0 /\ ustore[user].is_admin

\* admin_only without the is_admin test of line 51
admin_onlyAnyUser(h, ustore, c) ==
    IF h.static = "good" THEN TRUE
    ELSE get_current_user(h, ustore, c) # 0

\* auth.py admin_only: TRUE when the wrapped handler runs
admin_only(h, ustore, c) ==
    IF h.static = "good" THEN TRUE
    ELSE LET user == get_current_user(h, ustore, c)
         IN user # 0 /\ ustore[user].is_admin

\* require_api_key without the test of lines 61-62
require_api_keyNoMissingTest(h, ustore, c) ==
    LET hit == {u \in UserIds : /\ ustore[u].exists
                                /\ h.auth # "none"
                                /\ api_key(ustore[u], c) = h.tok}
    IN IF hit = {} THEN "invalid"
       ELSE IF ~ustore[Min(hit)].approved THEN "pending"
       ELSE "admit"

\* require_api_key without the try / except of lines 67-76: the first row, in
\* scan order, whose key does not decrypt ends the request
require_api_keyNoExcept(h, ustore, c) ==
    IF h.auth = "none" THEN "missing"
    ELSE LET hit == {u \in UserIds : /\ ustore[u].exists
                                     /\ api_key(ustore[u], c) = h.tok}
             bad == {u \in UserIds : /\ ustore[u].exists
                                     /\ api_key(ustore[u], c) = DecryptFail}
         IN IF bad # {} /\ (hit = {} \/ Min(bad) < Min(hit)) THEN "error"
            ELSE IF hit = {} THEN "invalid"
            ELSE IF ~ustore[Min(hit)].approved THEN "pending"
            ELSE "admit"

\* auth.py require_api_key: "admit" when the wrapped handler runs, else the
\* rejection
require_api_key(h, ustore, c) ==
    IF h.auth = "none" THEN "missing"
    ELSE LET hit == {u \in UserIds : /\ ustore[u].exists
                                     /\ api_key(ustore[u], c) = h.tok}
         IN IF hit = {} THEN "invalid"
            ELSE IF ~ustore[Min(hit)].approved THEN "pending"
            ELSE "admit"

GateStatus(g) == IF g = "missing" THEN 401 ELSE 403

\* keys: the users whose API key the response body carries in plaintext
Respond(op, status, msg, keys) ==
    resp' = [op |-> op, status |-> status, msg |-> msg, keys |-> keys, user |-> 0,
             bots |-> {}, mail |-> "none"]

\* user: the user whose own data (profile, bots) the response body shows
RespondAs(op, status, msg, user) ==
    resp' = [op |-> op, status |-> status, msg |-> msg, keys |-> {}, user |-> user,
             bots |-> {}, mail |-> "none"]

\* listed: the EmailBots the response body shows, each with its decrypted address
RespondBots(op, status, msg, user, listed) ==
    resp' = [op |-> op, status |-> status, msg |-> msg, keys |-> {}, user |-> user,
             bots |-> listed, mail |-> "none"]

\* the outcome of handing a message to the SMTP transport
MailResult(mail_ok) == IF mail_ok THEN "sent" ELSE "failed"

\* mail: what became of the e-mail the request sent through mailer.send_email
\* ("none": the request sent none)
RespondMail(op, status, msg, keys, mail) ==
    resp' = [op |-> op, status |-> status, msg |-> msg, keys |-> keys, user |-> 0,
             bots |-> {}, mail |-> mail]

RotBusy == rot.pc # "idle"

\* the last response has reached its client
Delivered == resp = NoResp

\* requests are served only while no rotation script is running
ServerUp == ~RotBusy /\ Delivered

\* a command-line script is started only while no rotation script is running
ShellFree == ~RotBusy /\ Delivered

NoRequestInFlight == \A w \in Workers : reqs[w].pc = "idle"

ByEmail(ustore, email) == {u \in UserIds : ustore[u].exists /\ ustore[u].email = email}

\* ---------------------------------------------------------------- register
\* user_api.py register: a pending user holding a fresh key in the temporary
\* field
NewPendingUser(email, admin, tok, c) ==
    set_api_key_plain([NoUser EXCEPT !.exists = TRUE, !.email = email,
                                     !.is_admin = admin], tok, c)

\* register lines 76-78: the users the new registration is announced to
AdminRows(ustore) == {u \in UserIds : ustore[u].exists /\ ustore[u].is_admin}

\* mail_ok: mailer.send_email hands the announcement to the transport (it
\* returns False otherwise, which register ignores)
Register(name_given, email, mail_ok) ==
    /\ ServerUp
    /\ IF ~name_given \/ email = Empty
       THEN /\ Respond("register", 400, "name_email_required", {})
            /\ UNCHANGED <<users, nextUid>>
       ELSE IF ByEmail(users, email) # {}
       THEN /\ Respond("register", 400, "user_exists", {})
            /\ UNCHANGED <<users, nextUid>>
       ELSE /\ nextUid <= MaxUsers
            /\ users' = [users EXCEPT ![nextUid] =
                            NewPendingUser(email, FALSE, FreshApiKey(nextUid, 0), srvKey)]
            /\ nextUid' = nextUid + 1
            /\ RespondMail("register", 201, "registered", {},
                           IF AdminRows(users) # {} THEN MailResult(mail_ok) ELSE "none")
    /\ UNCHANGED <<bots, nextBid, issued, nextKey, envKey, srvKey, rot, reqs, notified,
                   logs, outbox, limitEnv>>

\* ---------------------------------------------------------------- approve
\* approve_user without line 99: the pending field is left in place
ApprovedRowKeepsPending(u, c) ==
    [set_api_key(u, api_key_plain(u, c), c) EXCEPT !.approved = TRUE]

\* approve_user without line 98: the key is not moved to api_key
ApprovedRowFlagOnly(u, c) ==
    [set_api_key_plain(u, Empty, c) EXCEPT !.approved = TRUE]

\* admin_api.py approve_user, lines 98-100: the session's user object after
\* the three assignments
ApprovedRow(u, c) ==
    [set_api_key_plain(set_api_key(u, api_key_plain(u, c), c), Empty, c)
        EXCEPT !.approved = TRUE]

\* approve_user without the test of lines 89-91
ApproveCheckSkipsApproved(u, c) ==
    IF ~u.exists THEN "not_found"
    ELSE IF api_key_plain(u, c) = DecryptFail THEN "exception"
    ELSE IF api_key_plain(u, c) = Empty THEN "no_pending_key"
    ELSE "ok"

\* approve_user without the test of lines 92-94
ApproveCheckSkipsPending(u, c) ==
    IF ~u.exists THEN "not_found"
    ELSE IF u.approved THEN "already_approved"
    ELSE IF api_key_plain(u, c) = DecryptFail THEN "exception"
    ELSE "ok"

\* admin_api.py approve_user, lines 85-94: the precondition checks
ApproveCheck(u, c) ==
    IF ~u.exists THEN "not_found"
    ELSE IF u.approved THEN "already_approved"
    ELSE IF api_key_plain(u, c) = DecryptFail THEN "exception"
    ELSE IF api_key_plain(u, c) = Empty THEN "no_pending_key"
    ELSE "ok"

CheckStatus(r) ==
    IF r = "not_found" THEN 404
    ELSE IF r = "already_approved" THEN 200
    ELSE IF r = "no_pending_key" THEN 400
    ELSE 500

\* approve_user with the commit of line 101 moved behind the e-mail
FlushApprovalDeferred(row, obj) == row

\* the UPDATE a commit flushes for an approved session object: only the
\* three dirty columns
FlushApproval(row, obj) ==
    [row EXCEPT !.key = obj.key, !.plain = obj.plain, !.approved = obj.approved]

\* approve_user up to the commit: gate, load, checks, setters
ApproveUserBegin(w, h, uid) ==
    /\ ServerUp
    /\ reqs[w].pc = "idle"
    /\ \A v \in Workers : reqs[v].pc = "idle" => w <= v
    /\ IF ~admin_only(h, users, srvKey)
       THEN /\ Respond("approve", 403, "admin_required", {})
            /\ UNCHANGED reqs
       ELSE LET r == ApproveCheck(users[uid], srvKey)
            IN IF r # "ok"
               THEN /\ Respond("approve", CheckStatus(r), r, {})
                    /\ UNCHANGED reqs
               ELSE /\ reqs' = [reqs EXCEPT ![w] =
                            [pc |-> "commit", uid |-> uid,
                             obj |-> ApprovedRow(users[uid], srvKey)]]
                    /\ UNCHANGED resp
    /\ UNCHANGED <<users, bots, nextUid, nextBid, issued, nextKey, envKey, srvKey,
                   rot, notified, logs, outbox, limitEnv>>

\* approve_user line 101: db.session.commit(); a row deleted meanwhile makes
\* the flush raise (caught, 500)
ApproveUserCommit(w) ==
    /\ Delivered
    /\ reqs[w].pc = "commit"
    /\ LET uid == reqs[w].uid
       IN IF users[uid].exists
          THEN /\ users' = [users EXCEPT ![uid] = FlushApproval(users[uid], reqs[w].obj)]
               /\ reqs' = [reqs EXCEPT ![w].pc = "notify"]
               /\ UNCHANGED resp
          ELSE /\ Respond("approve", 500, "db_error", {})
               /\ reqs' = [reqs EXCEPT ![w] = IdleReq]
               /\ UNCHANGED users
    /\ UNCHANGED <<bots, nextUid, nextBid, issued, nextKey, envKey, srvKey,
                   rot, notified, logs, outbox, limitEnv>>

\* approve_user lines 108-128: the approval e-mail with the plaintext key,
\* then the response; the expired object is reloaded from the table
ApproveUserNotify(w, mail_ok) ==
    /\ Delivered
    /\ reqs[w].pc = "notify"
    /\ LET uid == reqs[w].uid
       IN IF users[uid].exists /\ api_key(users[uid], srvKey) # DecryptFail
          THEN /\ notified' = [notified EXCEPT ![uid] = @ + 1]
               /\ RespondMail("approve", 200, "approved", {uid}, MailResult(mail_ok))
          ELSE /\ Respond("approve", 500, "exception", {})
               /\ UNCHANGED notified
    /\ reqs' = [reqs EXCEPT ![w] = IdleReq]
    /\ UNCHANGED <<users, bots, nextUid, nextBid, issued, nextKey, envKey, srvKey,
                   rot, logs, outbox, limitEnv>>

\* ---------------------------------------------------------------- admin API
\* admin_api.py list_users_admin: the rows whose decrypted api_key the response
\* carries; sel is the user table restricted to the rows the request reads
ReadableKeys(sel, c) ==
    {u \in sel : users[u].approved /\ api_key(users[u], c) # Empty}

list_users_admin(h, uid) ==
    /\ ServerUp
    /\ IF ~admin_only(h, users, srvKey)
       THEN Respond("list_users", 403, "admin_required", {})
       ELSE LET sel == IF uid # 0 THEN {uid} ELSE {u \in UserIds : users[u].exists}
            IN IF uid # 0 /\ ~users[uid].exists
               THEN Respond("list_users", 404, "not_found", {})
               ELSE IF \E u \in sel : \/ api_key(users[u], srvKey) = DecryptFail
                                      \/ api_key_plain(users[u], srvKey) = DecryptFail
               THEN Respond("list_users", 500, "exception", {})
               ELSE Respond("list_users", 200, "users", ReadableKeys(sel, srvKey))
    /\ UNCHANGED <<users, bots, nextUid, nextBid, issued, nextKey, envKey, srvKey,
                   rot, reqs, notified, logs, outbox, limitEnv>>

\* the relationship of models.py lines 25-30 without its cascade
DeleteCascadeKeepsBots(bstore, uid) == bstore

\* cascade="all, delete-orphan" on User.email_bots: the owner's bots go with
\* the user
DeleteCascade(bstore, uid) ==
    [b \in BotIds |-> IF bstore[b].exists /\ bstore[b].owner = uid THEN NoBot ELSE bstore[b]]

\* cascade="all, delete-orphan" on the backref User.logs: the owner's Log
\* rows go with the user
DeleteLogs(lstore, uid) == [lstore EXCEPT ![uid] = 0]

\* admin_api.py delete_user
delete_user(h, uid) ==
    /\ ServerUp
    /\ IF ~admin_only(h, users, srvKey)
       THEN /\ Respond("delete_user", 403, "admin_required", {})
            /\ UNCHANGED <<users, bots, logs>>
       ELSE IF ~users[uid].exists
       THEN /\ Respond("delete_user", 404, "not_found", {})
            /\ UNCHANGED <<users, bots, logs>>
       ELSE /\ users' = [users EXCEPT ![uid] = NoUser]
            /\ bots' = DeleteCascade(bots, uid)
            /\ logs' = DeleteLogs(logs, uid)
            /\ Respond("delete_user", 200, "deleted", {})
    /\ UNCHANGED <<nextUid, nextBid, issued, nextKey, envKey, srvKey,
                   rot, reqs, notified, outbox, limitEnv>>

\* block_user if blocking withdrew the approval
BlockedRowRevokes(u, block) == [u EXCEPT !.approved = IF block THEN FALSE ELSE @]

\* admin_api.py block_user line 488: is_blocked is no column of the user table,
\* the assignment sets an attribute of the loaded object only and the commit
\* writes nothing
BlockedRow(u, block) == u

block_user(h, uid, block) ==
    /\ ServerUp
    /\ IF ~admin_only(h, users, srvKey)
       THEN /\ Respond("block_user", 403, "admin_required", {})
            /\ UNCHANGED users
       ELSE IF ~users[uid].exists
       THEN /\ Respond("block_user", 404, "not_found", {})
            /\ UNCHANGED users
       ELSE /\ users' = [users EXCEPT ![uid] = BlockedRow(users[uid], block)]
            /\ Respond("block_user", 200, IF block THEN "blocked" ELSE "unblocked", {})
    /\ UNCHANGED <<bots, nextUid, nextBid, issued, nextKey, envKey, srvKey,
                   rot, reqs, notified, logs, outbox, limitEnv>>

\* ---------------------------------------------------------------- config
\* config.py line 27, os.getenv("HERMES_DEFAULT_BOT_LIMIT") or 10: the integer
\* default when the variable is unset, else the string the environment holds
HERMES_DEFAULT_BOT_LIMIT(env) ==
    IF env = Empty THEN [type |-> "int", val |-> DefaultBotLimit]
    ELSE [type |-> "str", val |-> env]

\* user.hermes_default_usage >= Config.HERMES_DEFAULT_BOT_LIMIT: comparing an
\* integer with a string raises TypeError
UsageReachedLimit(usage, limit) ==
    IF limit.type # "int" THEN "TypeError"
    ELSE IF usage >= limit.val THEN "reached"
    ELSE "below"

\* ---------------------------------------------------------------- user API
\* user_api.py rotate_api_key: a fresh key replaces the caller's own
rotate_api_key(h) ==
    /\ ServerUp
    /\ LET g == require_api_key(h, users, srvKey)
           user == get_current_user(h, users, srvKey)
       IN IF g # "admit"
          THEN /\ Respond("rotate_api_key", GateStatus(g), g, {})
               /\ UNCHANGED <<users, issued>>
          ELSE IF user = 0
          THEN /\ Respond("rotate_api_key", 400, "user_not_found", {})
               /\ UNCHANGED <<users, issued>>
          ELSE /\ issued[user] < MaxOwnRotations
               /\ users' = [users EXCEPT ![user] =
                      set_api_key(users[user], FreshApiKey(user, issued[user] + 1), srvKey)]
               /\ issued' = [issued EXCEPT ![user] = @ + 1]
               /\ Respond("rotate_api_key", 200, "rotated", {user})
    /\ UNCHANGED <<bots, nextUid, nextBid, nextKey, envKey, srvKey,
                   rot, reqs, notified, logs, outbox, limitEnv>>

\* user_api.py get_profile: the caller's own profile
get_profile(h) ==
    /\ ServerUp
    /\ LET g == require_api_key(h, users, srvKey)
           user == get_current_user(h, users, srvKey)
       IN IF g # "admit"
          THEN Respond("get_profile", GateStatus(g), g, {})
          ELSE IF user = 0
          THEN Respond("get_profile", 400, "user_not_found", {})
          ELSE IF UsageReachedLimit(users[user].usage,
                                    HERMES_DEFAULT_BOT_LIMIT(limitEnv)) = "TypeError"
          THEN Respond("get_profile", 403, "invalid", {})
          ELSE RespondAs("get_profile", 200, "profile", user)
    /\ UNCHANGED <<users, bots, nextUid, nextBid, issued, nextKey, envKey, srvKey,
                   rot, reqs, notified, logs, outbox, limitEnv>>

\* user_api.py add_email_bot
NewBot(owner, email, password, c) ==
    set_password(set_email([NoBot EXCEPT !.exists = TRUE, !.owner = owner], email, c),
                 password, c)

add_email_bot(h, email, password) ==
    /\ ServerUp
    /\ LET g == require_api_key(h, users, srvKey)
           user == get_current_user(h, users, srvKey)
       IN IF g # "admit"
          THEN /\ Respond("add_email_bot", GateStatus(g), g, {})
               /\ UNCHANGED <<bots, nextBid>>
          ELSE IF user = 0
          THEN /\ Respond("add_email_bot", 400, "user_not_found", {})
               /\ UNCHANGED <<bots, nextBid>>
          ELSE IF email = Empty \/ password = Empty
          THEN /\ Respond("add_email_bot", 400, "missing_email_or_password", {})
               /\ UNCHANGED <<bots, nextBid>>
          ELSE /\ nextBid <= MaxBots
               /\ bots' = [bots EXCEPT ![nextBid] = NewBot(user, email, password, srvKey)]
               /\ nextBid' = nextBid + 1
               /\ Respond("add_email_bot", 200, "bot_added", {})
    /\ UNCHANGED <<users, nextUid, issued, nextKey, envKey, srvKey,
                   rot, reqs, notified, logs, outbox, limitEnv>>

\* ---------------------------------------------------------------- EmailBots
\* EmailBot.query.filter_by(id=bot_id) without the user_id of the caller
OwnedBotAnyOwner(bstore, bid, user) == bid \in BotIds /\ bstore[bid].exists

\* EmailBot.query.filter_by(id=bot_id, user_id=user.id).first() finds a row
OwnedBot(bstore, bid, user) ==
    bid \in BotIds /\ bstore[bid].exists /\ bstore[bid].owner = user

\* EmailBot.query.filter_by(user_id=user.id).all()
BotsOf(bstore, user) == {b \in BotIds : bstore[b].exists /\ bstore[b].owner = user}

\* the bot_data / bot_list entries of list_email_bots: id and decrypted address
BotData(bstore, sel, c) == {[id |-> b, email |-> bot_email(bstore[b], c)] : b \in sel}

\* user_api.py list_email_bots: GET /emailbots (bid = 0) and GET /emailbots/<bid>;
\* a decryption error leaves the handler and is swallowed by require_api_key,
\* whose scan then ends in the invalid-key answer
list_email_bots(h, bid) ==
    /\ ServerUp
    /\ LET g == require_api_key(h, users, srvKey)
           user == get_current_user(h, users, srvKey)
           sel == IF bid # 0 THEN {bid} ELSE BotsOf(bots, user)
       IN IF g # "admit"
          THEN Respond("list_email_bots", GateStatus(g), g, {})
          ELSE IF user = 0
          THEN Respond("list_email_bots", 400, "user_not_found", {})
          ELSE IF bid # 0 /\ ~OwnedBot(bots, bid, user)
          THEN Respond("list_email_bots", 404, "bot_not_found", {})
          ELSE IF \E b \in sel : Raises(bots[b].email, srvKey)
          THEN Respond("list_email_bots", 403, "invalid", {})
          ELSE RespondBots("list_email_bots", 200, IF bid # 0 THEN "bot" ELSE "bots",
                           user, BotData(bots, sel, srvKey))
    /\ UNCHANGED <<users, bots, nextUid, nextBid, issued, nextKey, envKey, srvKey,
                   rot, reqs, notified, logs, outbox, limitEnv>>

\* the fields of the PUT payload that are present (Empty: absent)
UpdatedBot(b, email, password, c) ==
    LET b1 == IF email # Empty THEN set_email(b, email, c) ELSE b
    IN IF password # Empty THEN set_password(b1, password, c) ELSE b1

\* user_api.py update_email_bot
update_email_bot(h, bid, email, password) ==
    /\ ServerUp
    /\ LET g == require_api_key(h, users, srvKey)
           user == get_current_user(h, users, srvKey)
       IN IF g # "admit"
          THEN /\ Respond("update_email_bot", GateStatus(g), g, {})
               /\ UNCHANGED bots
          ELSE IF user = 0
          THEN /\ Respond("update_email_bot", 400, "user_not_found", {})
               /\ UNCHANGED bots
          ELSE IF ~OwnedBot(bots, bid, user)
          THEN /\ Respond("update_email_bot", 400, "bot_not_found", {})
               /\ UNCHANGED bots
          ELSE /\ bots' = [bots EXCEPT ![bid] = UpdatedBot(bots[bid], email, password, srvKey)]
               /\ RespondAs("update_email_bot", 200, "bot_updated", user)
    /\ UNCHANGED <<users, nextUid, nextBid, issued, nextKey, envKey, srvKey,
                   rot, reqs, notified, logs, outbox, limitEnv>>

\* user_api.py delete_email_bot
delete_email_bot(h, bid) ==
    /\ ServerUp
    /\ LET g == require_api_key(h, users, srvKey)
           user == get_current_user(h, users, srvKey)
       IN IF g # "admit"
          THEN /\ Respond("delete_email_bot", GateStatus(g), g, {})
               /\ UNCHANGED bots
          ELSE IF user = 0
          THEN /\ Respond("delete_email_bot", 400, "user_not_found", {})
               /\ UNCHANGED bots
          ELSE IF ~OwnedBot(bots, bid, user)
          THEN /\ Respond("delete_email_bot", 404, "bot_not_found", {})
               /\ UNCHANGED bots
          ELSE /\ bots' = [bots EXCEPT ![bid] = NoBot]
               /\ RespondAs("delete_email_bot", 200, "bot_deleted", user)
    /\ UNCHANGED <<users, nextUid, nextBid, issued, nextKey, envKey, srvKey,
                   rot, reqs, notified, logs, outbox, limitEnv>>

\* ---------------------------------------------------------------- logs
\* the log_request decorator: a Log row for the acting user is appended
log_request(lstore, user) == [lstore EXCEPT ![user] = @ + 1]

\* user_api.py get_logs: the caller's own Log rows; logged: the decorator
\* records this call
get_logs(h, logged) ==
    /\ ServerUp
    /\ LET g == require_api_key(h, users, srvKey)
           user == get_current_user(h, users, srvKey)
       IN IF g # "admit"
          THEN /\ Respond("get_logs", GateStatus(g), g, {})
               /\ UNCHANGED logs
          ELSE IF user = 0
          THEN /\ Respond("get_logs", 400, "user_not_found", {})
               /\ UNCHANGED logs
          ELSE /\ RespondAs("get_logs", 200, "logs", user)
               /\ IF logged
                  THEN /\ logs[user] < MaxLogs
                       /\ logs' = log_request(logs, user)
                  ELSE UNCHANGED logs
    /\ UNCHANGED <<users, bots, nextUid, nextBid, issued, nextKey, envKey, srvKey,
                   rot, reqs, notified, outbox, limitEnv>>

\* ---------------------------------------------------------------- send-email
\* the message leaves through the sender's account
Dispatched(box, bid, user) ==
    IF bid # 0 THEN [box EXCEPT !.bot[bid] = @ + 1]
    ELSE [box EXCEPT !.default[user] = @ + 1]

\* EmailMessage(to=data["to"], ...): the constructor validates the address
\* format and raises for a malformed recipient
EmailMessageRaises(to_ok) == ~to_ok

\* email_api.py send_email: bid = 0 sends through the default Hermes bot;
\* to_ok: the "to" address of the payload is well-formed; smtp_ok: sending the
\* message (lines 237-241) raises nothing; every exception of lines 224-265
\* is answered 500.
\* An exception before the try block of line 224 leaves the handler and is
\* swallowed by require_api_key, whose scan then ends in the invalid-key answer
send_email(h, bid, to_ok, smtp_ok) ==
    /\ ServerUp
    /\ LET g == require_api_key(h, users, srvKey)
           user == get_current_user(h, users, srvKey)
           limit == HERMES_DEFAULT_BOT_LIMIT(limitEnv)
       IN IF g # "admit"
          THEN /\ Respond("send_email", GateStatus(g), g, {})
               /\ UNCHANGED <<users, outbox>>
          ELSE IF user = 0
          THEN /\ Respond("send_email", 400, "user_not_found", {})
               /\ UNCHANGED <<users, outbox>>
          ELSE IF bid # 0 /\ ~OwnedBot(bots, bid, user)
          THEN /\ Respond("send_email", 400, "invalid_bot", {})
               /\ UNCHANGED <<users, outbox>>
          ELSE IF bid # 0 /\ BotRaises(bots[bid], srvKey)
          THEN /\ Respond("send_email", 403, "invalid", {})
               /\ UNCHANGED <<users, outbox>>
          ELSE IF bid = 0 /\ UsageReachedLimit(users[user].usage, limit) = "TypeError"
          THEN /\ Respond("send_email", 403, "invalid", {})
               /\ UNCHANGED <<users, outbox>>
          ELSE IF bid = 0 /\ UsageReachedLimit(users[user].usage, limit) = "reached"
          THEN /\ Respond("send_email", 403, "limit_exceeded", {})
               /\ UNCHANGED <<users, outbox>>
          ELSE /\ users' = IF bid = 0
                           THEN [users EXCEPT ![user].usage = @ + 1]
                           ELSE users
               /\ IF ~EmailMessageRaises(to_ok) /\ smtp_ok
                  THEN /\ bid # 0 => outbox.bot[bid] < MaxSends
                       /\ outbox' = Dispatched(outbox, bid, user)
                       /\ RespondAs("send_email", 200, "sent", user)
                  ELSE /\ UNCHANGED outbox
                       /\ RespondAs("send_email", 500, "send_failed", user)
    /\ UNCHANGED <<bots, nextUid, nextBid, issued, nextKey, envKey, srvKey,
                   rot, reqs, notified, logs, limitEnv>>

\* send_email without bot_id in the steps that requests of other workers can
\* interleave with. Lines 125-160: gate, user lookup, limit check and the
\* increment on the session's user object
SendEmailBegin(w, h) ==
    /\ ServerUp
    /\ reqs[w].pc = "idle"
    /\ \A v \in Workers : reqs[v].pc = "idle" => w <= v
    /\ LET g == require_api_key(h, users, srvKey)
           user == get_current_user(h, users, srvKey)
           limit == HERMES_DEFAULT_BOT_LIMIT(limitEnv)
       IN IF g # "admit"
          THEN /\ Respond("send_email", GateStatus(g), g, {})
               /\ UNCHANGED reqs
          ELSE IF user = 0
          THEN /\ Respond("send_email", 400, "user_not_found", {})
               /\ UNCHANGED reqs
          ELSE IF UsageReachedLimit(users[user].usage, limit) = "TypeError"
          THEN /\ Respond("send_email", 403, "invalid", {})
               /\ UNCHANGED reqs
          ELSE IF UsageReachedLimit(users[user].usage, limit) = "reached"
          THEN /\ Respond("send_email", 403, "limit_exceeded", {})
               /\ UNCHANGED reqs
          ELSE /\ reqs' = [reqs EXCEPT ![w] =
                       [pc |-> "send_commit", uid |-> user,
                        obj |-> [users[user] EXCEPT !.usage = @ + 1]]]
               /\ UNCHANGED resp
    /\ UNCHANGED <<users, bots, nextUid, nextBid, issued, nextKey, envKey, srvKey,
                   rot, notified, logs, outbox, limitEnv>>

\* the UPDATE the commit of line 161 flushes: the counter of the session's
\* object
FlushUsage(row, obj) == [row EXCEPT !.usage = obj.usage]

\* line 161, db.session.commit(); for a row deleted meanwhile the flush
\* raises, the exception leaves the handler and require_api_key answers
SendEmailCommit(w) ==
    /\ Delivered
    /\ reqs[w].pc = "send_commit"
    /\ LET uid == reqs[w].uid
       IN IF users[uid].exists
          THEN /\ users' = [users EXCEPT ![uid] = FlushUsage(users[uid], reqs[w].obj)]
               /\ reqs' = [reqs EXCEPT ![w].pc = "send_dispatch"]
               /\ UNCHANGED resp
          ELSE /\ Respond("send_email", 403, "invalid", {})
               /\ reqs' = [reqs EXCEPT ![w] = IdleReq]
               /\ UNCHANGED users
    /\ UNCHANGED <<bots, nextUid, nextBid, issued, nextKey, envKey, srvKey,
                   rot, notified, logs, outbox, limitEnv>>

\* lines 224-269: the message is built and sent, any exception is answered 500
SendEmailDispatch(w, to_ok, smtp_ok) ==
    /\ Delivered
    /\ reqs[w].pc = "send_dispatch"
    /\ LET uid == reqs[w].uid
       IN IF ~EmailMessageRaises(to_ok) /\ smtp_ok
          THEN /\ outbox' = Dispatched(outbox, 0, uid)
               /\ RespondAs("send_email", 200, "sent", uid)
          ELSE /\ UNCHANGED outbox
               /\ RespondAs("send_email", 500, "send_failed", uid)
    /\ reqs' = [reqs EXCEPT ![w] = IdleReq]
    /\ UNCHANGED <<users, bots, nextUid, nextBid, issued, nextKey, envKey, srvKey,
                   rot, notified, logs, limitEnv>>

\* the operator sets HERMES_DEFAULT_BOT_LIMIT in the environment (Empty: unsets
\* it) and restarts the server, whose Config class reads it at import
SetDefaultBotLimit(v) ==
    /\ ShellFree
    /\ NoRequestInFlight
    /\ limitEnv # v
    /\ limitEnv' = v
    /\ srvKey' = envKey
    /\ UNCHANGED <<users, bots, nextUid, nextBid, issued, nextKey, envKey, rot, reqs,
                   notified, resp, logs, outbox>>

\* ---------------------------------------------------------------- CLI
\* scripts/cli.py (and its copy scripts/manage_users.py): each command is a
\* process of its own, whose default cipher is built from .env as it starts

\* cli.py create_user
cli_create_user(email, admin) ==
    /\ ShellFree
    /\ IF ByEmail(users, email) # {}
       THEN UNCHANGED <<users, nextUid>>
       ELSE /\ nextUid <= MaxUsers
            /\ users' = [users EXCEPT ![nextUid] =
                            NewPendingUser(email, admin, FreshApiKey(nextUid, 0), envKey)]
            /\ nextUid' = nextUid + 1
    /\ UNCHANGED <<bots, nextBid, issued, nextKey, envKey, srvKey, rot, reqs, notified,
                   resp, logs, outbox, limitEnv>>

\* cli.py approve_user: checks, setters, commit and e-mail in one run
cli_approve_user(email) ==
    /\ ShellFree
    /\ IF ByEmail(users, email) = {}
       THEN UNCHANGED <<users, notified>>
       ELSE LET uid == Min(ByEmail(users, email))
            IN IF ApproveCheck(users[uid], envKey) # "ok"
               THEN UNCHANGED <<users, notified>>
               ELSE /\ users' = [users EXCEPT ![uid] =
                                    FlushApproval(users[uid], ApprovedRow(users[uid], envKey))]
                    /\ notified' = [notified EXCEPT ![uid] = @ + 1]
    /\ UNCHANGED <<bots, nextUid, nextBid, issued, nextKey, envKey, srvKey, rot, reqs, resp,
                   logs, outbox, limitEnv>>

\* cli.py delete_user
cli_delete_user(email) ==
    /\ ShellFree
    /\ IF ByEmail(users, email) = {}
       THEN UNCHANGED <<users, bots, logs>>
       ELSE LET uid == Min(ByEmail(users, email))
            IN /\ users' = [users EXCEPT ![uid] = NoUser]
               /\ bots' = DeleteCascade(bots, uid)
               /\ logs' = DeleteLogs(logs, uid)
    /\ UNCHANGED <<nextUid, nextBid, issued, nextKey, envKey, srvKey, rot, reqs,
                   notified, resp, outbox, limitEnv>>

\* cli.py update_user lines 172-179: the row after the four optional changes
UpdatedRow(u, new_email, make_admin, revoke_admin) ==
    [u EXCEPT !.email = IF new_email # Empty THEN new_email ELSE @,
              !.is_admin = IF revoke_admin THEN FALSE
                           ELSE IF make_admin THEN TRUE ELSE @]

\* cli.py update_user; the unique constraint on user.email makes the commit
\* raise when the new address is taken
cli_update_user(email, new_email, make_admin, revoke_admin) ==
    /\ ShellFree
    /\ IF ByEmail(users, email) = {}
       THEN UNCHANGED users
       ELSE LET uid == Min(ByEmail(users, email))
            IN IF new_email # Empty /\ ByEmail(users, new_email) \ {uid} # {}
               THEN UNCHANGED users
               ELSE users' = [users EXCEPT ![uid] =
                                UpdatedRow(users[uid], new_email, make_admin, revoke_admin)]
    /\ UNCHANGED <<bots, nextUid, nextBid, issued, nextKey, envKey, srvKey, rot, reqs,
                   notified, resp, logs, outbox, limitEnv>>

\* the server process is restarted: crypto.py builds the default cipher from
\* FERNET_KEY again
ServerRestart ==
    /\ ShellFree
    /\ NoRequestInFlight
    /\ srvKey # envKey
    /\ srvKey' = envKey
    /\ UNCHANGED <<users, bots, nextUid, nextBid, issued, nextKey, envKey, rot, reqs,
                   notified, resp, logs, outbox, limitEnv>>

\* ---------------------------------------------------------------- rotation
\* rotate_keys.py lines 56-58 / 60-62 / 65-67 / 69-71: one field decrypted
\* under the old key and stored again under the new one
ReencryptApiKey(u, old, new) ==
    IF u.key # NullCT THEN set_api_key(u, decrypt_value(u.key, old), new) ELSE u

\* lines 60-62 if the pending key were stored through the default cipher
ReencryptApiKeyPlainDefaultCipher(u, old, new) ==
    IF u.plain # NullCT THEN set_api_key_plain(u, decrypt_value(u.plain, old), old) ELSE u

ReencryptApiKeyPlain(u, old, new) ==
    IF u.plain # NullCT THEN set_api_key_plain(u, decrypt_value(u.plain, old), new) ELSE u

ReencryptEmail(b, old, new) ==
    IF b.email # NullCT THEN set_email(b, decrypt_value(b.email, old), new) ELSE b

ReencryptPassword(b, old, new) ==
    IF b.password # NullCT THEN set_password(b, decrypt_value(b.password, old), new) ELSE b

\* first row of the loop at which an exception is raised (one past the last
\* row when none is)
FirstUserRaising(ustore, old) ==
    LET bad == {u \in UserIds : UserRaises(ustore[u], old)}
    IN IF bad = {} THEN MaxUsers + 1 ELSE Min(bad)

FirstBotRaising(bstore, old) ==
    LET bad == {b \in BotIds : BotRaises(bstore[b], old)}
    IN IF bad = {} THEN MaxBots + 1 ELSE Min(bad)

\* rotate_keys.py lines 55-62: the session's user objects when the loop ends
\* or is left by an exception
SessionUsers(ustore, old, new) ==
    LET f == FirstUserRaising(ustore, old)
    IN [u \in UserIds |->
          IF u < f THEN ReencryptApiKeyPlain(ReencryptApiKey(ustore[u], old, new), old, new)
          ELSE IF u = f /\ ~Raises(ustore[u].key, old)
               THEN ReencryptApiKey(ustore[u], old, new)
          ELSE ustore[u]]

\* rotate_keys.py lines 64-71: the session's bot objects; the bot loop is not
\* reached when the user loop raised
SessionBots(bstore, ustore, old, new) ==
    LET f == FirstBotRaising(bstore, old)
    IN [b \in BotIds |->
          IF FirstUserRaising(ustore, old) <= MaxUsers THEN bstore[b]
          ELSE IF b < f THEN ReencryptPassword(ReencryptEmail(bstore[b], old, new), old, new)
          ELSE IF b = f /\ ~Raises(bstore[b].email, old)
               THEN ReencryptEmail(bstore[b], old, new)
          ELSE bstore[b]]

LoopRaises(ustore, bstore, old) ==
    \/ FirstUserRaising(ustore, old) <= MaxUsers
    \/ FirstBotRaising(bstore, old) <= MaxBots

\* an abort that flushed the session all the same
AbortedStoreFlushed(table, session) == session

\* an exception leaves rotate_fernet_key before line 73: the session is
\* dropped with the process and the table keeps its rows
AbortedStore(table, session) == table

EndedRot(pc) == [rot EXCEPT !.pc = pc]

\* rotate_keys.py rotate_fernet_key lines 41-71: keys, queries and the
\* re-encryption loop
RotateFernetKeyBegin ==
    /\ ShellFree
    /\ NoRequestInFlight
    /\ nextKey <= MaxKey
    /\ nextKey' = nextKey + 1
    /\ LET old == envKey
           new == nextKey
           su == SessionUsers(users, old, new)
           sb == SessionBots(bots, users, old, new)
       IN IF LoopRaises(users, bots, old)
          THEN /\ rot' = [pc |-> "aborted", script |-> "rotate_keys",
                          old |-> old, new |-> new,
                          users0 |-> users, bots0 |-> bots,
                          sess_users |-> su, sess_bots |-> sb]
               /\ users' = AbortedStore(users, su)
               /\ bots' = AbortedStore(bots, sb)
          ELSE /\ rot' = [pc |-> "session", script |-> "rotate_keys",
                          old |-> old, new |-> new,
                          users0 |-> users, bots0 |-> bots,
                          sess_users |-> su, sess_bots |-> sb]
               /\ UNCHANGED <<users, bots>>
    /\ UNCHANGED <<nextUid, nextBid, issued, envKey, srvKey, reqs, notified, resp,
                   logs, outbox, limitEnv>>

\* rotate_keys.py line 73: db.session.commit() writes every rewritten row in
\* one transaction
RotateFernetKeyCommit ==
    /\ rot.pc = "session"
    /\ rot.script = "rotate_keys"
    /\ users' = rot.sess_users
    /\ bots' = rot.sess_bots
    /\ rot' = [rot EXCEPT !.pc = "committed"]
    /\ UNCHANGED <<nextUid, nextBid, issued, nextKey, envKey, srvKey, reqs, notified, resp,
                   logs, outbox, limitEnv>>

\* line 73 raises (the store refuses the transaction): nothing is written
RotateFernetKeyCommitFails ==
    /\ rot.pc = "session"
    /\ rot.script = "rotate_keys"
    /\ users' = AbortedStore(users, rot.sess_users)
    /\ bots' = AbortedStore(bots, rot.sess_bots)
    /\ rot' = EndedRot("aborted")
    /\ UNCHANGED <<nextUid, nextBid, issued, nextKey, envKey, srvKey, reqs, notified, resp,
                   logs, outbox, limitEnv>>

\* rotate_keys.py line 76 and update_env_var: FERNET_KEY=<new key> in .env
RotateFernetKeyUpdateEnv ==
    /\ rot.pc = "committed"
    /\ rot.script = "rotate_keys"
    /\ envKey' = rot.new
    /\ rot' = EndedRot("done")
    /\ UNCHANGED <<users, bots, nextUid, nextBid, issued, nextKey, srvKey, reqs,
                   notified, resp, logs, outbox, limitEnv>>

\* the script dies, or the .env write raises, after the commit and before
\* .env is rewritten
RotateCrash ==
    /\ rot.pc = "committed"
    /\ rot' = EndedRot("crashed")
    /\ UNCHANGED <<users, bots, nextUid, nextBid, issued, nextKey, envKey, srvKey, reqs,
                   notified, resp, logs, outbox, limitEnv>>

\* the script's process is gone
RotateExit ==
    /\ rot.pc \in {"done", "aborted", "crashed"}
    /\ rot' = IdleRot
    /\ UNCHANGED <<users, bots, nextUid, nextBid, issued, nextKey, envKey, srvKey, reqs,
                   notified, resp, logs, outbox, limitEnv>>

\* rotate_key.py lines 79-99: every field is read and written back through
\* the property accessors, that is under the script's default cipher c
RewriteUser(u, c) ==
    LET u1 == IF u.key # NullCT
              THEN set_api_key([u EXCEPT !.key = NullCT], api_key(u, c), c) ELSE u
    IN IF u1.plain # NullCT
       THEN set_api_key_plain([u1 EXCEPT !.plain = NullCT], api_key_plain(u1, c), c)
       ELSE u1

RewriteBot(b, c) ==
    LET b1 == IF b.email # NullCT
              THEN set_email([b EXCEPT !.email = NullCT], bot_email(b, c), c) ELSE b
    IN IF b1.password # NullCT
       THEN set_password([b1 EXCEPT !.password = NullCT], bot_password(b1, c), c)
       ELSE b1

\* rotate_key.py rotate_key lines 68-99: the prompted old key goes to
\* os.environ only and no cipher is built from it; the default cipher c was
\* built from .env at import
RotateKeyBegin ==
    /\ ShellFree
    /\ NoRequestInFlight
    /\ nextKey <= MaxKey
    /\ nextKey' = nextKey + 1
    /\ LET c == envKey
       IN IF LoopRaises(users, bots, c)
          THEN rot' = [pc |-> "aborted", script |-> "rotate_key",
                       old |-> c, new |-> nextKey,
                       users0 |-> users, bots0 |-> bots,
                       sess_users |-> users, sess_bots |-> bots]
          ELSE rot' = [pc |-> "session", script |-> "rotate_key",
                       old |-> c, new |-> nextKey,
                       users0 |-> users, bots0 |-> bots,
                       sess_users |-> [u \in UserIds |-> RewriteUser(users[u], c)],
                       sess_bots |-> [b \in BotIds |-> RewriteBot(bots[b], c)]]
    /\ UNCHANGED <<users, bots, nextUid, nextBid, issued, envKey, srvKey, reqs,
                   notified, resp, logs, outbox, limitEnv>>

\* rotate_key.py line 101: db.session.commit()
RotateKeyCommit ==
    /\ rot.pc = "session"
    /\ rot.script = "rotate_key"
    /\ users' = rot.sess_users
    /\ bots' = rot.sess_bots
    /\ rot' = [rot EXCEPT !.pc = "committed"]
    /\ UNCHANGED <<nextUid, nextBid, issued, nextKey, envKey, srvKey, reqs, notified, resp,
                   logs, outbox, limitEnv>>

\* rotate_key.py line 105 and update_env_key: FERNET_KEY=<new key> in .env
RotateKeyUpdateEnv ==
    /\ rot.pc = "committed"
    /\ rot.script = "rotate_key"
    /\ envKey' = rot.new
    /\ rot' = EndedRot("done")
    /\ UNCHANGED <<users, bots, nextUid, nextBid, issued, nextKey, srvKey, reqs,
                   notified, resp, logs, outbox, limitEnv>>

\* the client reads the response
ClientReceives ==
    /\ ~Delivered
    /\ resp' = NoResp
    /\ UNCHANGED <<users, bots, nextUid, nextBid, issued, nextKey, envKey, srvKey, rot, reqs,
                   notified, logs, outbox, limitEnv>>

\* ---------------------------------------------------------------- system
\* the callers the lifecycle specifications draw for the admin endpoints: the
\* trusted service, a bearer of any API key, an anonymous caller
AdminCallers ==
    {h \in Headers : \/ h.static = "good" /\ h.auth = "none"
                     \/ h.static = "none" /\ h.auth # "raw"}

\* e-mail addresses are named in the order of their first use
KnownEmails == {e \in Emails : e <= nextUid}

ServiceOps ==
    \/ \E n \in BOOLEAN, e \in KnownEmails \cup {Empty}, ok \in BOOLEAN : Register(n, e, ok)
    \/ \E w \in Workers, h \in AdminCallers, u \in UserIds : ApproveUserBegin(w, h, u)
    \/ \E w \in Workers : ApproveUserCommit(w)
    \/ \E w \in Workers, ok \in BOOLEAN : ApproveUserNotify(w, ok)
    \/ \E h \in AdminCallers, u \in UserIds \cup {0} : list_users_admin(h, u)
    \/ \E h \in AdminCallers, u \in UserIds : delete_user(h, u)
    \/ \E h \in AdminCallers, u \in UserIds, b \in BOOLEAN : block_user(h, u, b)
    \/ \E h \in Headers : rotate_api_key(h)
    \/ ClientReceives

CliOps ==
    \/ \E e \in KnownEmails, a \in BOOLEAN : cli_create_user(e, a)
    \/ \E e \in Emails : cli_approve_user(e)
    \/ \E e \in Emails : cli_delete_user(e)
    \/ \E e \in Emails, ma \in BOOLEAN, ra \in BOOLEAN : cli_update_user(e, Empty, ma, ra)

RotateFernetKeyOps ==
    \/ RotateFernetKeyBegin
    \/ RotateFernetKeyCommit
    \/ RotateFernetKeyCommitFails
    \/ RotateFernetKeyUpdateEnv
    \/ RotateCrash
    \/ RotateExit
    \/ ServerRestart

RotateKeyOps ==
    \/ RotateKeyBegin
    \/ RotateKeyCommit
    \/ RotateKeyUpdateEnv

\* the service and the user-management commands under one master key
Next == ServiceOps \/ CliOps

Spec == Init /\ [][Next]_vars

\* the same with master-key rotations by rotate_keys.py and server restarts
\* the service taking one approval at a time
SerialOps ==
    \/ \E n \in BOOLEAN, e \in KnownEmails \cup {Empty}, ok \in BOOLEAN : Register(n, e, ok)
    \/ \E h \in AdminCallers, u \in UserIds :
            NoRequestInFlight /\ ApproveUserBegin(Min(Workers), h, u)
    \/ \E w \in Workers : ApproveUserCommit(w)
    \/ \E w \in Workers, ok \in BOOLEAN : ApproveUserNotify(w, ok)
    \/ \E h \in AdminCallers, u \in UserIds : delete_user(h, u)
    \/ \E h \in AdminCallers, u \in UserIds, b \in BOOLEAN : block_user(h, u, b)
    \/ \E h \in Headers : rotate_api_key(h)
    \/ ClientReceives

NextAll == SerialOps \/ CliOps \/ RotateFernetKeyOps

SpecAll == Init /\ [][NextAll]_vars

\* the two rotation scripts over a store filled by the commands and by the
\* server's bot and key endpoints
NextRotation ==
    \/ \E e \in KnownEmails, ok \in BOOLEAN : Register(TRUE, e, ok)
    \/ \E e \in KnownEmails, a \in BOOLEAN : cli_create_user(e, a)
    \/ \E e \in Emails : cli_approve_user(e)
    \/ \E h \in Headers, e \in BotSecrets \cup {Empty}, p \in BotSecrets \cup {Empty} :
            add_email_bot(h, e, p)
    \/ \E h \in Headers : rotate_api_key(h)
    \/ ClientReceives
    \/ RotateFernetKeyOps
    \/ RotateKeyOps

SpecRotation == Init /\ [][NextRotation]_vars

\* the approval workflow over a store that already holds one row: the columns
\* api_key_encrypted and api_key_plain_encrypted are nullable and
\* api_key_approved is any boolean, so a row written by an earlier release or
\* by hand may hold any combination of them
StoredRows ==
    [exists : {TRUE}, email : {Min(Emails)}, is_admin : BOOLEAN, approved : BOOLEAN,
     usage : {0},
     key : {NullCT, encrypt_value(FreshApiKey(Min(UserIds), 0), FirstKey)},
     plain : {NullCT, encrypt_value(FreshApiKey(Min(UserIds), 0), FirstKey)}]

InitStore ==
    /\ users \in {[[u \in UserIds |-> NoUser] EXCEPT ![Min(UserIds)] = r] : r \in StoredRows}
    /\ bots = [b \in BotIds |-> NoBot]
    /\ nextUid = Min(UserIds) + 1
    /\ nextBid = 1
    /\ issued = [u \in UserIds |-> 0]
    /\ nextKey = FirstKey + 1
    /\ envKey = FirstKey
    /\ srvKey = FirstKey
    /\ rot = IdleRot
    /\ reqs = [w \in Workers |-> IdleReq]
    /\ notified = [u \in UserIds |-> 0]
    /\ resp = NoResp
    /\ logs = [u \in UserIds |-> 0]
    /\ outbox = EmptyOutbox
    /\ limitEnv = Empty

NextStore ==
    \/ \E e \in KnownEmails, ok \in BOOLEAN : Register(TRUE, e, ok)
    \/ \E w \in Workers, h \in AdminCallers, u \in UserIds : ApproveUserBegin(w, h, u)
    \/ \E w \in Workers : ApproveUserCommit(w)
    \/ \E w \in Workers, ok \in BOOLEAN : ApproveUserNotify(w, ok)
    \/ \E e \in Emails : cli_approve_user(e)
    \/ ClientReceives

SpecStore == InitStore /\ [][NextStore]_vars

\* the two gates in front of a user endpoint that reads, one that writes and
\* an admin endpoint that writes, for every combination of the two headers
NextGate ==
    \/ \E e \in KnownEmails, ok \in BOOLEAN : Register(TRUE, e, ok)
    \/ \E e \in KnownEmails, a \in BOOLEAN : cli_create_user(e, a)
    \/ \E e \in Emails : cli_approve_user(e)
    \/ \E h \in Headers : get_profile(h)
    \/ \E h \in Headers : rotate_api_key(h)
    \/ \E h \in Headers, u \in UserIds : delete_user(h, u)
    \/ ClientReceives

SpecGate == Init /\ [][NextGate]_vars

\* the owners' view: users created and approved from the shell, their
\* EmailBots and Log rows, deletion of users by the trusted service and from
\* the shell
UserCallers == {h \in Headers : h.static = "none" /\ h.auth # "raw"}

TrustedService == [static |-> "good", auth |-> "none", tok |-> Empty]

NextOwn ==
    \/ \E e \in KnownEmails : cli_create_user(e, FALSE)
    \/ \E e \in Emails : cli_approve_user(e)
    \/ \E h \in UserCallers, e \in BotSecrets, p \in BotSecrets : add_email_bot(h, e, p)
    \/ \E h \in UserCallers, b \in BotIds \cup {0} : list_email_bots(h, b)
    \/ \E h \in UserCallers, b \in BotIds, e \in UpdatedSecrets \cup {Empty},
          p \in UpdatedSecrets \cup {Empty} : update_email_bot(h, b, e, p)
    \/ \E h \in UserCallers, b \in BotIds : delete_email_bot(h, b)
    \/ \E h \in UserCallers, b \in BotIds, to \in BOOLEAN, ok \in BOOLEAN :
          send_email(h, b, to, ok)
    \/ \E h \in UserCallers, logged \in BOOLEAN : get_logs(h, logged)
    \/ \E u \in UserIds : delete_user(TrustedService, u)
    \/ \E e \in Emails : cli_delete_user(e)
    \/ ClientReceives

SpecOwn == Init /\ [][NextOwn]_vars

\* the default Hermes bot and its usage limit
NextQuota ==
    \/ \E e \in KnownEmails : cli_create_user(e, FALSE)
    \/ \E e \in Emails : cli_approve_user(e)
    \/ \E h \in UserCallers, to \in BOOLEAN, ok \in BOOLEAN : send_email(h, 0, to, ok)
    \/ \E h \in UserCallers : get_profile(h)
    \/ \E v \in {Empty} \cup (1..DefaultBotLimit) : SetDefaultBotLimit(v)
    \/ ClientReceives

SpecQuota == Init /\ [][NextQuota]_vars

\* send-email requests of two workers through the default Hermes bot
NextRace ==
    \/ \E e \in KnownEmails : cli_create_user(e, FALSE)
    \/ \E e \in Emails : cli_approve_user(e)
    \/ \E w \in Workers, h \in UserCallers : SendEmailBegin(w, h)
    \/ \E w \in Workers : SendEmailCommit(w)
    \/ \E w \in Workers, to \in BOOLEAN, ok \in BOOLEAN : SendEmailDispatch(w, to, ok)
    \/ \E e \in Emails : cli_delete_user(e)
    \/ ClientReceives

SpecRace == Init /\ [][NextRace]_vars

\* registration: every payload of POST /register, approval and deletion from
\* the shell and by the trusted service
NextRegister ==
    \/ \E n \in BOOLEAN, e \in KnownEmails \cup {Empty, MalformedEmail}, ok \in BOOLEAN : Register(n, e, ok)
    \/ \E e \in Emails \cup {MalformedEmail} : cli_approve_user(e)
    \/ \E e \in Emails \cup {MalformedEmail} : cli_delete_user(e)
    \/ \E u \in UserIds : delete_user(TrustedService, u)
    \/ ClientReceives

SpecRegister == Init /\ [][NextRegister]_vars

\* ---------------------------------------------------------------- properties
\* every encrypted column of the user and bot tables, as (before, after) pairs
\* of a rotation run
FieldPairs ==
    {<<rot.users0[u].key, users[u].key>> : u \in UserIds}
    \cup {<<rot.users0[u].plain, users[u].plain>> : u \in UserIds}
    \cup {<<rot.bots0[b].email, bots[b].email>> : b \in BotIds}
    \cup {<<rot.bots0[b].password, bots[b].password>> : b \in BotIds}

\* the encrypted columns that hold a value
StoredSecrets ==
    ({users[u].key : u \in UserIds} \cup {users[u].plain : u \in UserIds}
     \cup {bots[b].email : b \in BotIds} \cup {bots[b].password : b \in BotIds}) \ {NullCT}

\* C1: when rotate_fernet_key has run to its end from K_old to K_new, .env
\* names K_new and every secret that was stored (API key, pending key, bot
\* e-mail address, bot password) opens under K_new to the plaintext it had
\* under K_old and no longer opens under K_old; empty columns stay empty.
C1_RotationReencryptsEverySecret ==
    (rot.script = "rotate_keys" /\ rot.pc = "done") =>
        /\ envKey = rot.new
        /\ \A f \in FieldPairs :
              IF f[1] = NullCT THEN f[2] = NullCT
              ELSE /\ f[2] # NullCT
                   /\ decrypt_value(f[1], rot.old) # DecryptFail
                   /\ decrypt_value(f[2], rot.new) = decrypt_value(f[1], rot.old)
                   /\ decrypt_value(f[2], rot.old) = DecryptFail

\* a completed rotate_fernet_key run over an approved user, a pending user
\* and a bot
C1_Witness ==
    /\ rot.script = "rotate_keys" /\ rot.pc = "done"
    /\ \E u \in UserIds : rot.users0[u].key # NullCT
    /\ \E u \in UserIds : rot.users0[u].plain # NullCT
    /\ \E b \in BotIds : rot.bots0[b].exists

\* C2: when a field fails to decrypt or the commit fails, rotate_fernet_key
\* ends with .env still naming K_old, every row exactly as it was before the
\* run (so whatever opened under K_old still does) and nothing stored under
\* K_new.
C2_AbortLeavesStoreAndEnv ==
    (rot.script = "rotate_keys" /\ rot.pc = "aborted") =>
        /\ envKey = rot.old
        /\ users = rot.users0
        /\ bots = rot.bots0
        /\ \A f \in FieldPairs :
              /\ f[2].k # rot.new
              /\ decrypt_value(f[1], rot.old) # DecryptFail
                    => decrypt_value(f[2], rot.old) = decrypt_value(f[1], rot.old)

\* a run left by a failed decryption after its session had re-encrypted an
\* earlier row
C2_Witness ==
    /\ rot.script = "rotate_keys" /\ rot.pc = "aborted"
    /\ LoopRaises(rot.users0, rot.bots0, rot.old)
    /\ rot.sess_users # rot.users0

\* C3: at no point of a rotate_fernet_key run (a crash or a failed .env write
\* after the commit included) does the store hold a secret sealed under
\* K_new while .env still names K_old.
C3_NoNewRowsUnderOldEnv ==
    rot.script = "rotate_keys" =>
        ~(envKey = rot.old /\ \E ct \in StoredSecrets : ct.k = rot.new)

\* C4: when the rotate_key command has run to its end, every stored secret
\* opens under the FERNET_KEY the command wrote to .env.
C4_RotateKeyStoreMatchesEnv ==
    (rot.script = "rotate_key" /\ rot.pc = "done") =>
        \A ct \in StoredSecrets : decrypt_value(ct, envKey) # DecryptFail

\* C5: an approved user has a non-empty api_key_encrypted and an empty
\* api_key_plain_encrypted, whatever registrations, CLI creations and
\* updates, approvals, own-key rotations, master-key rotations and deletions
\* came before.
C5_ApprovedHasKeyAndNoPending ==
    \A u \in UserIds :
        (users[u].exists /\ users[u].approved) =>
            users[u].key # NullCT /\ users[u].plain = NullCT

\* an approved user who rotated the own key, after a master-key rotation
C5_Witness ==
    \E u \in UserIds :
        /\ users[u].exists /\ users[u].approved
        /\ issued[u] > 0
        /\ envKey # FirstKey
        /\ users[u].key.k = envKey

\* C6: an approve request of an admin for a user who is approved already is
\* answered 200 "User already approved", changes no row, starts no commit
\* and triggers no notification.
C6_SecondApproveChangesNothing ==
    [][\A w \in Workers, h \in AdminCallers, u \in UserIds :
          (/\ users[u].exists /\ users[u].approved
           /\ admin_only(h, users, srvKey)
           /\ ApproveUserBegin(w, h, u))
          => /\ resp' = [op |-> "approve", status |-> 200, msg |-> "already_approved",
                         keys |-> {}, user |-> 0, bots |-> {}, mail |-> "none"]
             /\ UNCHANGED <<users, reqs, notified>>]_vars

\* the answer to a second approve of a user who was notified once
C6_Witness ==
    /\ resp.op = "approve" /\ resp.msg = "already_approved"
    /\ \E u \in UserIds : users[u].approved /\ notified[u] = 1

\* C7: an approve request of an admin for an existing, unapproved user whose
\* pending key is empty is answered 400, changes no row, starts no commit
\* and triggers no notification.
C7_NoPendingKeyIsRefused ==
    [][\A w \in Workers, h \in AdminCallers, u \in UserIds :
          (/\ users[u].exists /\ ~users[u].approved /\ users[u].plain = NullCT
           /\ admin_only(h, users, srvKey)
           /\ ApproveUserBegin(w, h, u))
          => /\ resp' = [op |-> "approve", status |-> 400, msg |-> "no_pending_key",
                         keys |-> {}, user |-> 0, bots |-> {}, mail |-> "none"]
             /\ UNCHANGED <<users, reqs, notified>>]_vars

\* the 400 answer, the user still unapproved and never notified
C7_Witness ==
    /\ resp.op = "approve" /\ resp.status = 400 /\ resp.msg = "no_pending_key"
    /\ \E u \in UserIds :
          /\ users[u].exists /\ ~users[u].approved /\ users[u].plain = NullCT
          /\ notified[u] = 0

\* C8: no step takes the approval away from a user who stays in the table:
\* block and unblock, own-key rotation, CLI update, master-key rotation and
\* repeated approve all leave api_key_approved set.
C8_ApprovedIsTerminal ==
    [][\A u \in UserIds :
          (users[u].exists /\ users[u].approved /\ users'[u].exists)
              => users'[u].approved]_vars

\* an approved user who rotated the own key and was then blocked, after a
\* master-key rotation
C8_Witness ==
    /\ resp.op = "block_user" /\ resp.msg = "blocked"
    /\ envKey # FirstKey
    /\ \E u \in UserIds : users[u].exists /\ users[u].approved /\ issued[u] > 0

\* C9: the approval notification is triggered at most once for a user, two
\* concurrent approve requests included.
C9_NotifiedAtMostOnce == \A u \in UserIds : notified[u] <= 1

\* C10: the user listing of the admin API returns no API key in plaintext.
C10_ListingCarriesNoKey == resp.op = "list_users" => resp.keys = {}

\* C11: a request whose bearer token is the current key of approved user u
\* resolves to u, however many other approved users there are.
C11_BearerResolvesToOwner ==
    \A h \in Headers, u \in UserIds :
        (/\ h.auth = "bearer"
         /\ users[u].exists /\ users[u].approved
         /\ api_key(users[u], srvKey) = h.tok)
        => get_current_user(h, users, srvKey) = u

\* C12: a request presenting the key generated for a registered, not yet
\* approved user is answered by the approved-user gate with the 403 "awaiting
\* approval" rejection, not with the 403 "invalid key" one, and is not
\* admitted.
C12_PendingKeyIsToldPending ==
    \A h \in Headers, u \in UserIds :
        (/\ h.auth # "none"
         /\ users[u].exists /\ ~users[u].approved
         /\ api_key_plain(users[u], srvKey) = h.tok)
        => require_api_key(h, users, srvKey) = "pending"

\* C13: a user endpoint behind require_api_key answers 401 "API key missing"
\* exactly when the request has no Authorization value, and 403 "Invalid API
\* key" when it has one that equals no user's stored key; in both cases the
\* handler does not run: nothing is written and the answer shows no user.
C13_MissingIs401InvalidIs403 ==
    [][\A h \in Headers :
          (get_profile(h) \/ rotate_api_key(h)) =>
             /\ h.auth = "none" <=> (resp'.status = 401 /\ resp'.msg = "missing")
             /\ (/\ h.auth # "none"
                 /\ \A u \in UserIds :
                       users[u].exists => api_key(users[u], srvKey) # h.tok)
                => (resp'.status = 403 /\ resp'.msg = "invalid")
             /\ resp'.msg \in {"missing", "invalid"}
                => (UNCHANGED <<users, issued>> /\ resp'.user = 0 /\ resp'.keys = {})]_vars

\* the 403 for an unknown key while an approved user's key is stored
C13_Witness ==
    /\ resp.op = "rotate_api_key" /\ resp.status = 403 /\ resp.msg = "invalid"
    /\ \E u \in UserIds : users[u].exists /\ users[u].approved

C15_AdminGateNeedsApprovedAdmin ==
    [][\A h \in Headers, u \in UserIds :
          (h.static = "none" /\ delete_user(h, u)) =>
             IF /\ h.auth = "bearer"
                /\ \E a \in UserIds : /\ users[a].exists
                                       /\ users[a].approved /\ users[a].is_admin
                                       /\ api_key(users[a], srvKey) = h.tok
             THEN resp'.status \in {200, 404}
             ELSE /\ resp'.status = 403 /\ resp'.msg = "admin_required"
                  /\ UNCHANGED <<users, bots, logs>>]_vars

\* the 403 while an approved user without the flag and an unapproved user
\* with the flag are in the table
C15_Witness ==
    /\ resp.op = "delete_user" /\ resp.status = 403 /\ resp.msg = "admin_required"
    /\ \E u \in UserIds : users[u].exists /\ users[u].approved /\ ~users[u].is_admin
    /\ \E u \in UserIds : users[u].exists /\ ~users[u].approved /\ users[u].is_admin

IssuedTokens(u) == {FreshApiKey(u, n) : n \in 0..issued[u]}

\* C17: while a registered user is not approved, no request resolves to that
\* user and no key generated for the user passes require_api_key or, as a
\* bearer token, admin_only; and when approve answers "approved", the key it
\* returns passes require_api_key and resolves to that user, who is approved
C17_PendingLockedOutApprovedKeyWorks ==
    /\ \A u \in UserIds :
          (users[u].exists /\ ~users[u].approved) =>
             \A h \in Headers :
                /\ get_current_user(h, users, srvKey) # u
                /\ (h.auth # "none" /\ h.tok \in IssuedTokens(u)) =>
                      /\ require_api_key(h, users, srvKey) # "admit"
                      /\ h.static = "none" => ~admin_only(h, users, srvKey)
    /\ (resp.op = "approve" /\ resp.msg = "approved") =>
          \A u \in resp.keys :
             LET h == [static |-> "none", auth |-> "bearer",
                       tok |-> api_key(users[u], srvKey)]
             IN /\ users[u].approved
                /\ h.tok \in Tokens
                /\ require_api_key(h, users, srvKey) = "admit"
                /\ get_current_user(h, users, srvKey) = u

\* approve has just answered with the key of a user who registered over
\* HTTP, while another registered user is still pending
C17_Witness ==
    /\ resp.op = "approve" /\ resp.msg = "approved"
    /\ \E u \in resp.keys, v \in UserIds :
          /\ users[u].approved /\ ~users[u].is_admin
          /\ users[v].exists /\ ~users[v].approved
          /\ api_key_plain(users[v], srvKey) \in IssuedTokens(v)

\* the request of caller h names an EmailBot that exists and belongs to
\* another user
ForeignBot(h, b) ==
    LET user == get_current_user(h, users, srvKey)
    IN user # 0 /\ bots[b].exists /\ bots[b].owner # user

\* C18: the list of EmailBots a user gets holds exactly the bots that user
\* owns, each with the address that was stored for it, and a single bot is
\* shown to its owner only; get, update, delete and send-email naming another
\* user's bot are answered not found / invalid and change no bot and send
\* nothing
C18_BotsAreTheOwnersOnly ==
    [][/\ (resp'.op = "list_email_bots" /\ resp'.status = 200) =>
            /\ resp'.user # 0
            /\ \A x \in resp'.bots :
                  /\ bots[x.id].exists /\ bots[x.id].owner = resp'.user
                  /\ x.email = bots[x.id].email.p
            /\ resp'.msg = "bots" =>
                  {x.id : x \in resp'.bots} =
                     {b \in BotIds : bots[b].exists /\ bots[b].owner = resp'.user}
       /\ \A h \in UserCallers, b \in BotIds :
            (/\ ForeignBot(h, b)
             /\ \/ list_email_bots(h, b)
                \/ delete_email_bot(h, b)
                \/ \E e \in UpdatedSecrets \cup {Empty}, p \in UpdatedSecrets \cup {Empty} :
                      update_email_bot(h, b, e, p)
                \/ \E to \in BOOLEAN, ok \in BOOLEAN : send_email(h, b, to, ok)) =>
               /\ resp'.status \in {400, 404}
               /\ resp'.msg \in {"bot_not_found", "invalid_bot"}
               /\ resp'.bots = {}
               /\ UNCHANGED <<bots, outbox, users>>]_vars

\* a user who owns an EmailBot has just been refused the other user's
\* EmailBot, which exists with the address it was created with
C18_Witness ==
    /\ resp.op \in {"list_email_bots", "update_email_bot", "delete_email_bot", "send_email"}
    /\ resp.msg \in {"bot_not_found", "invalid_bot"}
    /\ \E u \in UserIds, v \in UserIds, a \in BotIds, b \in BotIds :
          /\ u # v /\ users[u].approved /\ users[v].approved
          /\ bots[a].exists /\ bots[a].owner = u
          /\ bots[b].exists /\ bots[b].owner = v
          /\ bot_email(bots[b], srvKey) \in BotSecrets

\* C19: a send-email request without bot_id from a user whose default-bot
\* usage has reached the configured limit is answered "limit exceeded";
\* nothing is dispatched and the usage counter stays as it is
C19_AtLimitIsToldLimitExceeded ==
    [][\A h \in UserCallers, ok \in BOOLEAN :
          LET user == get_current_user(h, users, srvKey)
          IN (/\ require_api_key(h, users, srvKey) = "admit"
              /\ user # 0
              /\ users[user].usage >= HERMES_DEFAULT_BOT_LIMIT(limitEnv).val
              /\ \E to \in BOOLEAN : send_email(h, 0, to, ok)) =>
                 /\ resp'.status = 403 /\ resp'.msg = "limit_exceeded"
                 /\ UNCHANGED <<users, outbox>>]_vars

\* the request carrying tok as bearer token and no static key
Bearer(tok) == [static |-> "none", auth |-> "bearer", tok |-> tok]

\* C20: once a user has rotated the own API key, in every later state in
\* which the user exists every earlier key of the user is rejected by
\* require_api_key and by admin_only, the latest key is admitted and resolves
\* to the user, and the user is approved with an empty pending field
C20_RotationRetiresOldKey ==
    \A u \in UserIds :
       (users[u].exists /\ issued[u] > 0) =>
          /\ \A n \in 0..(issued[u] - 1) :
                /\ require_api_key(Bearer(FreshApiKey(u, n)), users, srvKey) # "admit"
                /\ ~admin_only(Bearer(FreshApiKey(u, n)), users, srvKey)
          /\ require_api_key(Bearer(FreshApiKey(u, issued[u])), users, srvKey) = "admit"
          /\ get_current_user(Bearer(FreshApiKey(u, issued[u])), users, srvKey) = u
          /\ users[u].approved
          /\ users[u].plain = NullCT

\* C21: once block-user with block = true has answered "blocked" for a user,
\* the bearer key of that user is rejected by require_api_key
C21_BlockedKeyIsRejected ==
    [][\A h \in AdminCallers, u \in UserIds :
          (block_user(h, u, TRUE) /\ resp'.msg = "blocked") =>
             \A tok \in Tokens :
                api_key(users'[u], srvKey') = tok =>
                   require_api_key(Bearer(tok), users', srvKey') # "admit"]_vars

\* C22: a registration without name or e-mail address, with a malformed
\* address or with an address already registered is answered 400 and changes
\* nothing; a successful one creates exactly one user, not approved, with a
\* pending key and no approved key
C22_RegisterValidates ==
    [][\A n \in BOOLEAN, e \in Emails \cup {Empty, MalformedEmail} :
          (\E ok \in BOOLEAN : Register(n, e, ok)) =>
             IF ~n \/ e = Empty \/ e = MalformedEmail \/ ByEmail(users, e) # {}
             THEN resp'.status = 400 /\ UNCHANGED <<users, nextUid>>
             ELSE /\ resp'.status = 201
                  /\ \E u \in UserIds :
                        /\ ~users[u].exists /\ users'[u].exists
                        /\ users'[u].email = e
                        /\ ~users'[u].approved
                        /\ users'[u].key = NullCT
                        /\ api_key_plain(users'[u], srvKey') \in Tokens
                        /\ \A v \in UserIds \ {u} : users'[v] = users[v]]_vars

\* C23: approve sends its e-mail only when the approval is already in the
\* table (flag set, key stored, pending field empty), and whatever becomes of
\* the e-mail the table stays as committed and the answer reports the
\* approval with the key; register sends its announcement only with the new
\* row in the table and answers 201 whatever becomes of it
C23_MailFollowsCommit ==
    [][/\ \A w \in Workers, ok \in BOOLEAN :
            (ApproveUserNotify(w, ok) /\ resp'.mail # "none") =>
               LET u == reqs[w].uid
               IN /\ users[u].approved
                  /\ users[u].key # NullCT
                  /\ users[u].plain = NullCT
                  /\ users' = users
                  /\ resp'.status = 200 /\ resp'.msg = "approved" /\ resp'.keys = {u}
       /\ \A e \in Emails, ok \in BOOLEAN :
            (Register(TRUE, e, ok) /\ resp'.mail # "none") =>
               /\ resp'.status = 201
               /\ \E u \in UserIds :
                     /\ ~users[u].exists
                     /\ users'[u].exists /\ users'[u].email = e
                     /\ users'[u].plain # NullCT]_vars

\* the approval e-mail has failed: the answer reports the approval and the
\* user is approved with the key stored
C23_Witness ==
    /\ resp.op = "approve" /\ resp.mail = "failed" /\ resp.status = 200
    /\ \E u \in resp.keys :
          /\ users[u].approved
          /\ api_key(users[u], srvKey) \in Tokens
          /\ users[u].plain = NullCT

\* C24: a send-email request of an approved user with a malformed "to"
\* address (no bot_id, usage below the limit) is answered 400, dispatches
\* nothing and leaves the usage counter as it is
C24_MalformedToIs400 ==
    [][\A h \in UserCallers, ok \in BOOLEAN :
          LET user == get_current_user(h, users, srvKey)
          IN (/\ require_api_key(h, users, srvKey) = "admit"
              /\ user # 0
              /\ UsageReachedLimit(users[user].usage,
                                   HERMES_DEFAULT_BOT_LIMIT(limitEnv)) = "below"
              /\ send_email(h, 0, FALSE, ok)) =>
                 /\ resp'.status = 400
                 /\ UNCHANGED <<users, outbox>>]_vars

\* C25: a bearer key that some row stores readably under the server's key is
\* matched to that row by require_api_key and, if the row is approved, by
\* get_current_user, whatever other rows the scan cannot decrypt
C25_ScanSkipsUndecryptableRows ==
    \A u \in UserIds :
       (users[u].exists /\ api_key(users[u], srvKey) \in Tokens) =>
          LET h == Bearer(api_key(users[u], srvKey))
          IN /\ require_api_key(h, users, srvKey) =
                   IF users[u].approved THEN "admit" ELSE "pending"
             /\ users[u].approved => get_current_user(h, users, srvKey) = u

\* the scan meets a row it cannot decrypt before the row of the approved
\* user whose key it can
C25_Witness ==
    \E u \in UserIds, v \in UserIds :
       /\ v < u
       /\ users[v].exists /\ users[v].approved
       /\ api_key(users[v], srvKey) = DecryptFail
       /\ users[u].exists /\ users[u].approved
       /\ api_key(users[u], srvKey) \in Tokens

\* the plaintext under a stored ciphertext, Empty for an empty column
Stored(ct) == IF ct = NullCT THEN Empty ELSE ct.p

\* C26: each of the four sensitive fields reads as empty when its column is
\* empty and as the stored plaintext otherwise; writing a non-empty value
\* stores a ciphertext that reads back as that value; writing an empty value
\* clears the column
C26_AccessorsRoundTrip ==
    /\ \A u \in UserIds :
          users[u].exists =>
             /\ api_key(users[u], srvKey) = Stored(users[u].key)
             /\ api_key_plain(users[u], srvKey) = Stored(users[u].plain)
             /\ \A v \in Tokens :
                   /\ api_key(set_api_key(users[u], v, srvKey), srvKey) = v
                   /\ api_key_plain(set_api_key_plain(users[u], v, srvKey), srvKey) = v
             /\ set_api_key(users[u], Empty, srvKey).key = NullCT
             /\ set_api_key_plain(users[u], Empty, srvKey).plain = NullCT
    /\ \A b \in BotIds :
          bots[b].exists =>
             /\ bot_email(bots[b], srvKey) = Stored(bots[b].email)
             /\ bot_password(bots[b], srvKey) = Stored(bots[b].password)
             /\ \A v \in BotSecrets \cup UpdatedSecrets :
                   /\ bot_email(set_email(bots[b], v, srvKey), srvKey) = v
                   /\ bot_password(set_password(bots[b], v, srvKey), srvKey) = v
             /\ set_email(bots[b], Empty, srvKey).email = NullCT
             /\ set_password(bots[b], Empty, srvKey).password = NullCT

\* C27: for every request headers h that require_api_key admits, the
\* get_current_user call of the handler returns the approved user whose key
\* is the request's token
C27_GateAndHandlerAgree ==
    \A h \in Headers :
       require_api_key(h, users, srvKey) = "admit" =>
          LET user == get_current_user(h, users, srvKey)
          IN /\ user # 0
             /\ users[user].approved
             /\ api_key(users[user], srvKey) = h.tok

\* C28: for every user the number of messages dispatched through the default
\* Hermes bot is at most the usage limit, however the send-email requests of
\* the user interleave
C28_DefaultBotSendsWithinLimit ==
    \A u \in UserIds : outbox.default[u] <= HERMES_DEFAULT_BOT_LIMIT(limitEnv).val

\* C29: when no rotation is running and every stored secret is encrypted
\* under FERNET_KEY of .env, the server admits the bearer key of every
\* approved user and decrypts the credentials of every EmailBot
C29_ServerReadsStoreAfterRotation ==
    (/\ rot.pc = "idle"
     /\ \A u \in UserIds : ~UserRaises(users[u], envKey)
     /\ \A b \in BotIds : ~BotRaises(bots[b], envKey)) =>
        /\ \A u \in UserIds :
              (users[u].exists /\ users[u].approved) =>
                 require_api_key(Bearer(api_key(users[u], envKey)), users, srvKey) = "admit"
        /\ \A b \in BotIds :
              bots[b].exists => ~BotRaises(bots[b], srvKey)

\* C30: hermes_default_usage of every user equals the number of e-mails
\* that were sent for that user through the default bot
C30_UsageCountsDefaultBotSends ==
    \A u \in UserIds :
        users[u].exists => users[u].usage = outbox.default[u]

====
